---- MODULE Spec2Model ----
(***************************************************************************)
(* Linksly URL shortener: the request handlers of the API server           *)
(* (POST /api/links, GET /s/:shortCode, GET /api/analytics/overview) over  *)
(* the relational store described by the Prisma schema (links, clicks).    *)
(* Every `await` of a handler is a point where other handlers may run, so  *)
(* each handler is one action per segment between awaits.                  *)
(***************************************************************************)
EXTENDS Integers, Sequences, FiniteSets, TLC

\* ---------------------------------------------------------------- bounds
MaxRequests == 2      \* requests the server receives in one run
MaxTime     == 1      \* the clock runs over 0..MaxTime

\* --------------------------------------------------------------- strings
\* URLs are sequences of one-character strings, so that startsWith and the
\* `https://` prefixing are computed on the characters.
HTTP  == <<"h","t","t","p",":","/","/">>
HTTPS == <<"h","t","t","p","s",":","/","/">>

Letters == {"a","b","h","m","p","s","t"}
Digits  == {"0","1","2","3","4","5","6","7","8","9"}

StartsWith(s, p) == Len(s) >= Len(p) /\ SubSeq(s, 1, Len(p)) = p

\* Position of the first occurrence of character c in s, 0 when absent.
IndexOf(s, c) ==
  IF \E k \in 1..Len(s) : s[k] = c
  THEN CHOOSE k \in 1..Len(s) : s[k] = c /\ \A j \in 1..(k-1) : s[j] # c
  ELSE 0

RECURSIVE StripSlashes(_)
StripSlashes(s) == IF s # <<>> /\ Head(s) = "/" THEN StripSlashes(Tail(s)) ELSE s

\* `new URL(string)` without a base: the string needs a scheme (a letter,
\* then letters, digits, "+", "-", "."; then ":"); an http(s) URL also needs
\* a non-empty host and an all-digit (possibly empty) port.
isValidUrl(string) ==
  LET colon  == IndexOf(string, ":")
      scheme == SubSeq(string, 1, colon - 1)
      rest   == StripSlashes(SubSeq(string, colon + 1, Len(string)))
      slash  == IndexOf(rest, "/")
      auth   == IF slash = 0 THEN rest ELSE SubSeq(rest, 1, slash - 1)
      pcolon == IndexOf(auth, ":")
      host   == IF pcolon = 0 THEN auth ELSE SubSeq(auth, 1, pcolon - 1)
      port   == IF pcolon = 0 THEN <<>> ELSE SubSeq(auth, pcolon + 1, Len(auth))
  IN  /\ colon > 1
      /\ string[1] \in Letters
      /\ \A k \in 2..(colon - 1) : string[k] \in Letters \cup Digits \cup {"+", "-", "."}
      /\ scheme \in {<<"h","t","t","p">>, <<"h","t","t","p","s">>}
           => /\ host # <<>>
              /\ \A k \in 1..Len(port) : port[k] \in Digits

formatUrl(url) ==
  IF ~StartsWith(url, HTTP) /\ ~StartsWith(url, HTTPS)
  THEN HTTPS \o url
  ELSE url

\* ---------------------------------------------------------------- inputs
None    == <<>>                 \* an absent optional field (undefined / NULL)
Some(v) == <<v>>                \* a present optional field

NanoIds == {"Vx7kQ2pL", "d9TzR4mW"}          \* values nanoid(8) may return
Aliases == {"abc"}                           \* customAlias values of the full specification
Codes   == {"abc", "Vx7kQ2pL", "d9TzR4mW"}   \* path parameter of GET /s/:shortCode

UrlPlain    == HTTPS \o <<"a",".","b">>       \* "https://a.b"
UrlHttp     == HTTP \o <<"a",".","b">>        \* "http://a.b"
UrlBare     == <<"a",".","b","/","p">>        \* "a.b/p": no scheme at all
UrlBadPort  == <<"m",":","a",".","b">>        \* "m:a.b": a URL, but "https://m:a.b" is none
UrlHostPort == <<"a",".","b",":">>            \* "a.b:": a URL with scheme "a.b"
Urls        == {UrlPlain, UrlHttp, UrlBare, UrlBadPort, UrlHostPort}

ExpiryTimes == {0}

\* Request bodies of POST /api/links (title and description are stored as given
\* and read by no handler logic, so they are left out).
Body(u, a, e) == [originalUrl |-> u, customAlias |-> a, expiresAt |-> e]

\* Bodies of the full specification: one URL, every alias, with and without expiry.
Bodies ==
  {Body(UrlPlain, None, None)}
  \cup {Body(UrlPlain, Some(a), None) : a \in Aliases}
  \cup {Body(UrlHttp, None, Some(t)) : t \in ExpiryTimes}

\* Bodies of the specification of Create alone: every URL form; empty, short,
\* ordinary aliases and one that equals a value nanoid may return.
MinAliasLength == 3      \* the alias length the create form demands
FormAliases == {"", "ab", "abc", "Vx7kQ2pL"}
FormBodies ==
  {Body(u, None, None) : u \in Urls}
  \cup {Body(UrlPlain, Some(a), None) : a \in FormAliases}

\* ----------------------------------------------------------------- state
VARIABLES
  links,     \* table links: sequence of rows, a row's id is its position
  clicks,    \* table clicks: sequence of rows
  reqs,      \* the requests received so far, each with its handler's position
  now        \* the clock (new Date(), now())

vars == <<links, clicks, reqs, now>>

LinkIds == 1..Len(links)
ReqIds  == 1..Len(reqs)

\* JavaScript truthiness of an optional string: undefined and "" are falsy.
Truthy(opt) == opt # None /\ opt[1] # ""

\* createLinkSchema.parse: originalUrl must be a URL; customAlias is any string.
createLinkSchema(body) == isValidUrl(body.originalUrl)

\* -------------------------------------------------------- store (Prisma)
\* prisma.link.findUnique({ where: { customAlias } })
findUniqueByAlias(alias) == {l \in LinkIds : links[l].customAlias = Some(alias)}

\* The @unique constraints of model Link, checked by the store on insert.
\* NULL customAlias values never collide.
DupShortCode(data)   == \E l \in LinkIds : links[l].shortCode = data.shortCode
DupCustomAlias(data) ==
  data.customAlias # None /\ \E l \in LinkIds : links[l].customAlias = data.customAlias
\* Mutant: the links table without the @unique on shortCode.
UniqueViolationAliasOnly(data) == DupCustomAlias(data)

\* Mutant: the schema without its @unique attributes.
UniqueViolationNever(data) == FALSE

UniqueViolation(data) == DupShortCode(data) \/ DupCustomAlias(data)

\* Mutant: a link that carries an expiry is stored inactive.
NewLinkInactiveIfExpiring(data) ==
  [id          |-> Len(links) + 1,
   originalUrl |-> data.originalUrl,
   shortCode   |-> data.shortCode,
   customAlias |-> data.customAlias,
   expiresAt   |-> data.expiresAt,
   createdAt   |-> now,
   isActive    |-> data.expiresAt = None,
   totalClicks |-> 0]

\* The row prisma.link.create inserts: schema defaults for the fields not given.
NewLink(data) ==
  [id          |-> Len(links) + 1,
   originalUrl |-> data.originalUrl,
   shortCode   |-> data.shortCode,
   customAlias |-> data.customAlias,
   expiresAt   |-> data.expiresAt,
   createdAt   |-> now,
   isActive    |-> TRUE,
   totalClicks |-> 0]

\* Mutant: the where clause without its { shortCode } branch.
findFirstAliasOnly(code) ==
  {l \in LinkIds : links[l].customAlias = Some(code) /\ links[l].isActive}

\* Mutant: the where clause without isActive: true.
findFirstAnyActivity(code) ==
  {l \in LinkIds : links[l].shortCode = code \/ links[l].customAlias = Some(code)}

\* prisma.link.findFirst({ where: { OR: [{shortCode}, {customAlias: shortCode}], isActive: true } })
\* returns some row of this set, or null when it is empty.
findFirstMatches(code) ==
  {l \in LinkIds : /\ links[l].shortCode = code \/ links[l].customAlias = Some(code)
                   /\ links[l].isActive}

\* Mutant: >= in place of >.
ExpiredAtOrAfter(link, t) == link.expiresAt # None /\ t >= link.expiresAt[1]

\* link.expiresAt && new Date() > link.expiresAt
Expired(link, t) == link.expiresAt # None /\ t > link.expiresAt[1]

\* ------------------------------------------------------ POST /api/links
\* The handler up to its first await: parse, formatUrl, isValidUrl, shortCode.
\* Mutant: the short code is always the generated one.
CreateDataGeneratedCode(body, gen) ==
  [originalUrl |-> formatUrl(body.originalUrl),
   shortCode   |-> gen,
   customAlias |-> body.customAlias,
   expiresAt   |-> body.expiresAt]

CreateData(body, gen) ==
  [originalUrl |-> formatUrl(body.originalUrl),
   shortCode   |-> IF Truthy(body.customAlias) THEN body.customAlias[1] ELSE gen,
   customAlias |-> body.customAlias,
   expiresAt   |-> body.expiresAt]

\* `held` and `fault` are not handler state. `held`: a link held the alias when
\* the request arrived. `fault`: what made a store call of the request throw
\* ("store": a store failure; "shortCode" / "customAlias": that @unique).
CreateReq(body, gen, pc, status, error) ==
  [kind |-> "create", body |-> body, data |-> CreateData(body, gen),
   pc |-> pc, status |-> status, error |-> error, fault |-> "none",
   held |-> body.customAlias # None /\ findUniqueByAlias(body.customAlias[1]) # {},
   linkId |-> 0, response |-> None]

CreateLink(body, gen) ==
  /\ Len(reqs) < MaxRequests
  /\ reqs' = Append(reqs,
       IF ~createLinkSchema(body)
         THEN CreateReq(body, gen, "done", 400, "Invalid input data")
       ELSE IF ~isValidUrl(formatUrl(body.originalUrl))
         THEN CreateReq(body, gen, "done", 400, "Invalid URL")
       ELSE IF Truthy(body.customAlias)
         THEN CreateReq(body, gen, "check", 0, "")
       ELSE CreateReq(body, gen, "insert", 0, ""))
  /\ UNCHANGED <<links, clicks, now>>

\* await prisma.link.findUnique: ok = FALSE is a store failure (the call throws).
CreateCheck(i, ok) ==
  /\ reqs[i].kind = "create" /\ reqs[i].pc = "check"
  /\ reqs' = [reqs EXCEPT ![i] =
       IF ~ok
         THEN [@ EXCEPT !.pc = "done", !.status = 500,
                        !.error = "Internal server error", !.fault = "store"]
       ELSE IF findUniqueByAlias(@.data.customAlias[1]) # {}
         THEN [@ EXCEPT !.pc = "done", !.status = 400,
                        !.error = "Custom alias already exists"]
       ELSE [@ EXCEPT !.pc = "insert"]]
  /\ UNCHANGED <<links, clicks, now>>

\* await prisma.link.create: a unique-constraint violation throws like any
\* other store error and reaches the catch block, which answers 500.
CreateInsert(i, ok) ==
  /\ reqs[i].kind = "create" /\ reqs[i].pc = "insert"
  /\ IF ~ok \/ UniqueViolation(reqs[i].data)
       THEN /\ reqs' = [reqs EXCEPT ![i] =
                 [@ EXCEPT !.pc = "done", !.status = 500,
                           !.error = "Internal server error",
                           !.fault = IF ~ok THEN "store"
                                     ELSE IF DupShortCode(reqs[i].data) THEN "shortCode"
                                     ELSE "customAlias"]]
            /\ UNCHANGED links
       ELSE /\ links' = Append(links, NewLink(reqs[i].data))
            /\ reqs' = [reqs EXCEPT ![i] =
                 [@ EXCEPT !.pc = "done", !.status = 201, !.linkId = Len(links) + 1,
                           !.response = Some(NewLink(reqs[i].data))]]
  /\ UNCHANGED <<clicks, now>>

\* ---------------------------------------------------- GET /s/:shortCode
\* Mutant: the redirect is sent once the click row is in, without awaiting
\* the counter update.
RedirectStatusEarly(status, click, update) ==
  IF status # 0 THEN status
  ELSE IF click = "failed" \/ update = "failed" THEN 500
  ELSE IF click = "ok" THEN 302
  ELSE 0

\* The response once a write of Promise.all([click.create, link.update]) has
\* settled: Promise.all rejects on the first failure (catch: 500) and resolves
\* when both writes have succeeded (res.redirect: 302). A response already
\* sent is never replaced.
RedirectStatus(status, click, update) ==
  IF status # 0 THEN status
  ELSE IF click = "failed" \/ update = "failed" THEN 500
  ELSE IF click = "ok" /\ update = "ok" THEN 302
  ELSE 0

\* Mutant: the two writes are issued before the expiry check, so a request
\* answered 410 still has them in flight.
RedirectReqWritesFirst(code, linkId, status, error) ==
  [kind |-> "redirect", code |-> code, seen |-> Len(links), linkId |-> linkId,
   read |-> IF linkId = 0 THEN 0 ELSE links[linkId].totalClicks,
   at |-> now, status |-> status, error |-> error, location |-> None,
   click  |-> IF linkId # 0 THEN "pending" ELSE "none",
   update |-> IF linkId # 0 THEN "pending" ELSE "none",
   fault |-> "none"]

\* Mutant: a click is recorded for a code that matched no link as well.
RedirectReqRecordsMisses(code, linkId, status, error) ==
  [kind |-> "redirect", code |-> code, seen |-> Len(links), linkId |-> linkId,
   read |-> IF linkId = 0 THEN 0 ELSE links[linkId].totalClicks,
   at |-> now, status |-> status, error |-> error, location |-> None,
   click  |-> IF status \in {0, 404} THEN "pending" ELSE "none",
   update |-> IF status = 0 THEN "pending" ELSE "none",
   fault |-> "none"]

\* `read` is the totalClicks of the row findFirst returned (the handler's
\* `link` object). `seen` and `at` are not handler state: the number of rows the
\* links table held when findFirst ran, and the time new Date() returned.
RedirectReq(code, linkId, status, error) ==
  [kind |-> "redirect", code |-> code, seen |-> Len(links), linkId |-> linkId,
   read |-> IF linkId = 0 THEN 0 ELSE links[linkId].totalClicks,
   at |-> now, status |-> status, error |-> error, location |-> None,
   click  |-> IF status = 0 THEN "pending" ELSE "none",
   update |-> IF status = 0 THEN "pending" ELSE "none",
   fault |-> "none"]

\* The handler up to Promise.all: findFirst, the 404 and the 410 early returns.
\* ok = FALSE: findFirst throws.
Redirect(code, ok) ==
  /\ Len(reqs) < MaxRequests
  /\ LET m == findFirstMatches(code) IN
       IF ~ok
         THEN reqs' = Append(reqs,
                [RedirectReq(code, 0, 500, "Internal server error")
                   EXCEPT !.fault = "store"])
       ELSE IF m = {}
         THEN reqs' = Append(reqs, RedirectReq(code, 0, 404, "Link not found"))
       ELSE \E l \in m :
         reqs' = Append(reqs,
           IF Expired(links[l], now)
             THEN RedirectReq(code, l, 410, "Link has expired")
             ELSE RedirectReq(code, l, 0, ""))
  /\ UNCHANGED <<links, clicks, now>>

\* What a settled write does to the request: the response, if this write
\* settles Promise.all, with the Location header of res.redirect.
Settle(r) ==
  LET st == RedirectStatus(r.status, r.click, r.update) IN
  [r EXCEPT !.status = st,
            !.error = IF r.status = 0 /\ st = 500 THEN "Internal server error" ELSE @,
            !.location = IF r.status = 0 /\ st = 302
                           THEN Some(links[r.linkId].originalUrl) ELSE @]

\* The row prisma.click.create inserts. `req` is not a column: it records the
\* request the row was inserted for.
NewClick(r, i) ==
  [id |-> Len(clicks) + 1, linkId |-> r.linkId, createdAt |-> now, req |-> i]

\* prisma.click.create settles.
ClickCreate(i, ok) ==
  /\ reqs[i].kind = "redirect" /\ reqs[i].click = "pending"
  /\ clicks' = IF ok THEN Append(clicks, NewClick(reqs[i], i)) ELSE clicks
  /\ reqs' = [reqs EXCEPT ![i] =
       Settle([@ EXCEPT !.click = IF ok THEN "ok" ELSE "failed",
                        !.fault = IF ok THEN @ ELSE "store"])]
  /\ UNCHANGED <<links, now>>

\* Mutant: the update counts down.
Decrement(n) == n - 1

\* data: { totalClicks: { increment: 1 } }, applied by the store in one statement.
Increment(n) == n + 1

\* Mutant: data: { totalClicks: link.totalClicks + 1 }, from the row read earlier.
NewTotalFromRead(current, read) == read + 1

\* The totalClicks prisma.link.update writes, given the column's current value
\* and the value the handler read with findFirst.
NewTotal(current, read) == Increment(current)

\* Mutant: the update also deactivates the link it counts a click for.
LinkUpdateDeactivating(i, ok) ==
  /\ reqs[i].kind = "redirect" /\ reqs[i].update = "pending"
  /\ links' = IF ok
       THEN [links EXCEPT ![reqs[i].linkId].totalClicks = NewTotal(@, reqs[i].read),
                          ![reqs[i].linkId].isActive = FALSE]
       ELSE links
  /\ reqs' = [reqs EXCEPT ![i] =
       Settle([@ EXCEPT !.update = IF ok THEN "ok" ELSE "failed",
                        !.fault = IF ok THEN @ ELSE "store"])]
  /\ UNCHANGED <<clicks, now>>

\* prisma.link.update settles.
LinkUpdate(i, ok) ==
  /\ reqs[i].kind = "redirect" /\ reqs[i].update = "pending"
  /\ links' = IF ok
       THEN [links EXCEPT ![reqs[i].linkId].totalClicks = NewTotal(@, reqs[i].read)]
       ELSE links
  /\ reqs' = [reqs EXCEPT ![i] =
       Settle([@ EXCEPT !.update = IF ok THEN "ok" ELSE "failed",
                        !.fault = IF ok THEN @ ELSE "store"])]
  /\ UNCHANGED <<clicks, now>>

\* ------------------------------------------ GET /api/analytics/overview
RECURSIVE SumTotalClicks(_)
SumTotalClicks(ls) ==
  IF ls = <<>> THEN 0 ELSE Head(ls).totalClicks + SumTotalClicks(Tail(ls))

\* prisma.link.count(), prisma.click.count()
linkCount  == Len(links)
clickCount == Len(clicks)

Min(a, b) == IF a < b THEN a ELSE b
Max(a, b) == IF a > b THEN a ELSE b

\* The clock counts in units of 7 days, the width of the recentClicks window
\* (7 * 24 * 60 * 60 * 1000 ms).
RecentWindow == 1

\* prisma.click.count({ where: { createdAt: { gte: now - 7 days } } })
recentClickCount ==
  Cardinality({c \in 1..Len(clicks) : clicks[c].createdAt >= now - RecentWindow})

\* take: 5
TopN == 5

\* orderBy: { totalClicks: 'desc' }: the orders in which the store may return
\* the rows. Rows of equal totalClicks come in an order the store chooses.
TotalClicksDescOrders ==
  {ord \in [LinkIds -> LinkIds] :
     /\ \A a, b \in LinkIds : a # b => ord[a] # ord[b]
     /\ \A a, b \in LinkIds :
          a < b => links[ord[a]].totalClicks >= links[ord[b]].totalClicks}

\* The handler only reads the store; the response fields modelled are the
\* three counts and the ids of topLinks (clicksOverTime is left out).
\* `sumSeen` and `linksSeen` are not part of the response: the sum of the
\* links' totalClicks columns, the links table and the time at the moment the
\* handler read the store. ok = FALSE: a query throws.
Overview(ok) ==
  /\ Len(reqs) < MaxRequests
  /\ IF ok
       THEN \E ord \in TotalClicksDescOrders :
         reqs' = Append(reqs,
              [kind |-> "overview", status |-> 200, error |-> "",
               totalLinks |-> linkCount, totalClicks |-> clickCount,
               recentClicks |-> recentClickCount,
               topLinks |-> SubSeq(ord, 1, Min(TopN, Len(links))),
               sumSeen |-> SumTotalClicks(links), linksSeen |-> links,
               at |-> now, fault |-> "none"])
       ELSE reqs' = Append(reqs,
              [kind |-> "overview", status |-> 500, error |-> "Internal server error",
               totalLinks |-> 0, totalClicks |-> 0, recentClicks |-> 0,
               topLinks |-> <<>>, sumSeen |-> 0, linksSeen |-> <<>>,
               at |-> now, fault |-> "store"])
  /\ UNCHANGED <<links, clicks, now>>

\* ----------------------------------------------------------------- clock
Tick ==
  /\ now < MaxTime
  /\ now' = now + 1
  /\ UNCHANGED <<links, clicks, reqs>>

\* --------------------------------------------------------- specification
\* The store when the run starts: empty, or holding the two links that
\* POST {originalUrl: "https://a.b"} and POST {originalUrl: "http://a.b",
\* expiresAt: 0} created at time 0 (nanoid returned "Vx7kQ2pL", then "d9TzR4mW").
SeedLinks ==
  << [id |-> 1, originalUrl |-> UrlPlain, shortCode |-> "Vx7kQ2pL",
      customAlias |-> None, expiresAt |-> None, createdAt |-> 0,
      isActive |-> TRUE, totalClicks |-> 0],
     [id |-> 2, originalUrl |-> UrlHttp, shortCode |-> "d9TzR4mW",
      customAlias |-> None, expiresAt |-> Some(0), createdAt |-> 0,
      isActive |-> TRUE, totalClicks |-> 0] >>

Init ==
  /\ links \in {<<>>, SeedLinks}
  /\ clicks = <<>>
  /\ reqs = <<>>
  /\ now = 0

Next ==
  \/ \E body \in Bodies, gen \in NanoIds : CreateLink(body, gen)
  \/ \E i \in ReqIds, ok \in BOOLEAN : CreateCheck(i, ok)
  \/ \E i \in ReqIds, ok \in BOOLEAN : CreateInsert(i, ok)
  \/ \E code \in Codes, ok \in BOOLEAN : Redirect(code, ok)
  \/ \E i \in ReqIds, ok \in BOOLEAN : ClickCreate(i, ok)
  \/ \E i \in ReqIds, ok \in BOOLEAN : LinkUpdate(i, ok)
  \/ \E ok \in BOOLEAN : Overview(ok)
  \/ Tick

Spec == Init /\ [][Next]_vars

\* Create alone, over every URL form and short aliases.
NextCreate ==
  \/ \E body \in FormBodies, gen \in NanoIds : CreateLink(body, gen)
  \/ \E i \in ReqIds, ok \in BOOLEAN : CreateCheck(i, ok)
  \/ \E i \in ReqIds, ok \in BOOLEAN : CreateInsert(i, ok)

SpecCreate == Init /\ [][NextCreate]_vars

\* ------------------------------------------------------- GET /api/links
\* Query parameters are sequences of one-character strings, None when absent.
DigitValue(c) ==
  CASE c = "0" -> 0 [] c = "1" -> 1 [] c = "2" -> 2 [] c = "3" -> 3 [] c = "4" -> 4
    [] c = "5" -> 5 [] c = "6" -> 6 [] c = "7" -> 7 [] c = "8" -> 8 [] c = "9" -> 9

\* The value of the longest prefix of digits of s, read after the digits in acc.
RECURSIVE DigitsValue(_, _)
DigitsValue(s, acc) ==
  IF s = <<>> \/ Head(s) \notin Digits THEN acc
  ELSE DigitsValue(Tail(s), 10 * acc + DigitValue(Head(s)))

\* parseInt(param): None is NaN (parameter absent, or no digit after the
\* optional sign); text after the digits is ignored.
parseInt(param) ==
  IF param = None THEN None
  ELSE LET signed == Head(param) \in {"+", "-"}
           body   == IF signed THEN Tail(param) ELSE param
       IN  IF body = <<>> \/ Head(body) \notin Digits THEN None
           ELSE Some((IF Head(param) = "-" THEN -1 ELSE 1) * DigitsValue(body, 0))

DefaultPage  == 1
DefaultLimit == 10

\* parseInt(param) || default: NaN and 0 are falsy.
OrDefault(parsed, default) ==
  IF parsed = None \/ parsed[1] = 0 THEN default ELSE parsed[1]

\* Math.ceil(a / b) for b # 0.
CeilDiv(a, b) ==
  LET n == IF b < 0 THEN -a ELSE a
      d == IF b < 0 THEN -b ELSE b
  IN  IF n >= 0 THEN (n + d - 1) \div d ELSE -((-n) \div d)


\* The ids of all links in an order orderBy: { createdAt: 'desc' } allows: the
\* query names no second key, so rows with equal createdAt come in an order
\* the store chooses.
CreatedDescOrders ==
  {ord \in [LinkIds -> LinkIds] :
     /\ \A a, b \in LinkIds : a # b => ord[a] # ord[b]
     /\ \A a, b \in LinkIds : a < b => links[ord[a]].createdAt >= links[ord[b]].createdAt}

\* findMany({ skip, take }) over the ordered rows: take >= 0 returns the take
\* rows after the first skip; a negative take returns the last -take rows
\* before the last skip.
Page(ord, skip, take) ==
  IF take >= 0
    THEN SubSeq(ord, skip + 1, Min(skip + take, Len(ord)))
    ELSE SubSeq(ord, Max(1, Len(ord) - skip + take + 1), Len(ord) - skip)

\* The query strings the list requests carry: each parameter absent,
\* non-numeric, zero, negative and positive.
PageParams  == {None, <<"x">>, <<"0">>, <<"-","1">>, <<"1">>, <<"2">>}
LimitParams == {None, <<"x">>, <<"0">>, <<"-","1">>, <<"1">>, <<"2">>}
ListQueries ==
  {<<p, None>> : p \in PageParams} \cup {<<None, l>> : l \in LimitParams}
  \cup {<<p, <<"1">> >> : p \in {<<"1">>, <<"2">>}}

\* The response once a query of Promise.all([findMany, count]) has settled.
ListStatus(status, find, count) ==
  IF status # 0 THEN status
  ELSE IF find = "failed" \/ count = "failed" THEN 500
  ELSE IF find = "ok" /\ count = "ok" THEN 200
  ELSE 0

\* The handler up to Promise.all: page, limit and skip. `seen` is not handler
\* state: the number of rows the links table held when findMany ran.
ListLinks(pageParam, limitParam) ==
  /\ Len(reqs) < MaxRequests
  /\ LET page  == OrDefault(parseInt(pageParam), DefaultPage)
         limit == OrDefault(parseInt(limitParam), DefaultLimit)
     IN  reqs' = Append(reqs,
           [kind |-> "list", pageParam |-> pageParam, limitParam |-> limitParam,
            page |-> page, limit |-> limit, skip |-> (page - 1) * limit,
            find |-> "pending", count |-> "pending", rows |-> <<>>, total |-> 0,
            seen |-> 0, status |-> 0, error |-> "", fault |-> "none"])
  /\ UNCHANGED <<links, clicks, now>>

SettleList(r) ==
  LET st == ListStatus(r.status, r.find, r.count) IN
  [r EXCEPT !.status = st,
            !.error = IF r.status = 0 /\ st = 500 THEN "Internal server error" ELSE @]

\* prisma.link.findMany settles. The store rejects a negative skip; ok = FALSE
\* is any other store failure.
ListFind(i, ok) ==
  /\ reqs[i].kind = "list" /\ reqs[i].find = "pending"
  /\ IF ~ok \/ reqs[i].skip < 0
       THEN reqs' = [reqs EXCEPT ![i] =
              SettleList([@ EXCEPT !.find = "failed",
                                   !.fault = IF ok THEN "skip" ELSE "store"])]
       ELSE \E ord \in CreatedDescOrders :
              reqs' = [reqs EXCEPT ![i] =
                SettleList([@ EXCEPT !.find = "ok", !.seen = Len(links),
                                     !.rows = Page(ord, reqs[i].skip, reqs[i].limit)])]
  /\ UNCHANGED <<links, clicks, now>>

\* prisma.link.count settles.
ListCount(i, ok) ==
  /\ reqs[i].kind = "list" /\ reqs[i].count = "pending"
  /\ reqs' = [reqs EXCEPT ![i] =
       SettleList([@ EXCEPT !.count = IF ok THEN "ok" ELSE "failed",
                            !.total = IF ok THEN linkCount ELSE @,
                            !.fault = IF ok THEN @ ELSE "store"])]
  /\ UNCHANGED <<links, clicks, now>>

\* pagination.pages of the response of list request i.
Pages(i) == CeilDiv(reqs[i].total, reqs[i].limit)

\* Listing, with links being created in between.
NextList ==
  \/ \E q \in ListQueries : ListLinks(q[1], q[2])
  \/ \E i \in ReqIds, ok \in BOOLEAN : ListFind(i, ok)
  \/ \E i \in ReqIds, ok \in BOOLEAN : ListCount(i, ok)
  \/ \E gen \in NanoIds : CreateLink(Body(UrlPlain, None, None), gen)
  \/ \E i \in ReqIds, ok \in BOOLEAN : CreateInsert(i, ok)
  \/ Tick

SpecList == Init /\ [][NextList]_vars

\* ------------------------------------------------- GET /api/links/:id
\* The ids a request may carry: the id of a link of the store, or 0 for an id
\* no link has.
IdParams == {0} \cup LinkIds

\* include: { clicks: { orderBy: { createdAt: 'desc' }, take: 100 } }
ClicksTake == 100

\* The click rows the response includes, as a set of ids: every row of the
\* link while it has at most ClicksTake of them.
IncludedClicks(l) ==
  LET rows == {c \in 1..Len(clicks) : clicks[c].linkId = l}
  IN  IF Cardinality(rows) <= ClicksTake THEN rows ELSE {}

\* The whole handler: findUnique, 404 when null, else the link with its
\* clicks. ok = FALSE: findUnique throws.
GetLink(id, ok) ==
  /\ Len(reqs) < MaxRequests
  /\ reqs' = Append(reqs,
       IF ~ok
         THEN [kind |-> "get", id |-> id, status |-> 500,
               error |-> "Internal server error", link |-> None, rows |-> {},
               fault |-> "store"]
       ELSE IF id \notin LinkIds
         THEN [kind |-> "get", id |-> id, status |-> 404, error |-> "Link not found",
               link |-> None, rows |-> {}, fault |-> "none"]
       ELSE [kind |-> "get", id |-> id, status |-> 200, error |-> "",
             link |-> Some(links[id]), rows |-> IncludedClicks(id), fault |-> "none"])
  /\ UNCHANGED <<links, clicks, now>>

\* ---------------------------------------------- GET /api/links/:id/qr
\* `${req.protocol}://${req.get('host')}/s/${link.shortCode}` without the
\* origin, which is the same for every request.
ShortUrl(link) == "/s/" \o link.shortCode

\* The whole handler: findUnique, 404 when null, else the QR code of the
\* short URL (modelled by the text it encodes). ok = FALSE: findUnique throws;
\* drawn = FALSE: QRCode.toDataURL throws.
QrCode(id, ok, drawn) ==
  /\ Len(reqs) < MaxRequests
  /\ reqs' = Append(reqs,
       IF ~ok
         THEN [kind |-> "qr", id |-> id, status |-> 500,
               error |-> "Internal server error", qrCode |-> None, fault |-> "store"]
       ELSE IF id \notin LinkIds
         THEN [kind |-> "qr", id |-> id, status |-> 404, error |-> "Link not found",
               qrCode |-> None, fault |-> "none"]
       ELSE IF ~drawn
         THEN [kind |-> "qr", id |-> id, status |-> 500,
               error |-> "Internal server error", qrCode |-> None, fault |-> "qr"]
       ELSE [kind |-> "qr", id |-> id, status |-> 200, error |-> "",
             qrCode |-> Some(ShortUrl(links[id])), fault |-> "none"])
  /\ UNCHANGED <<links, clicks, now>>

\* ------------------------------------------------------ every operation
\* All six handlers, with one kind of create and of list request and
\* redirects to generated codes.
NextAll ==
  \/ \E gen \in NanoIds : CreateLink(Body(UrlPlain, None, None), gen)
  \/ \E i \in ReqIds, ok \in BOOLEAN : CreateInsert(i, ok)
  \/ \E code \in NanoIds, ok \in BOOLEAN : Redirect(code, ok)
  \/ \E i \in ReqIds, ok \in BOOLEAN : ClickCreate(i, ok)
  \/ \E i \in ReqIds, ok \in BOOLEAN : LinkUpdate(i, ok)
  \/ \E ok \in BOOLEAN : Overview(ok)
  \/ Tick
  \/ ListLinks(None, None)
  \/ \E i \in ReqIds, ok \in BOOLEAN : ListFind(i, ok)
  \/ \E i \in ReqIds, ok \in BOOLEAN : ListCount(i, ok)
  \/ \E id \in IdParams, ok \in BOOLEAN : GetLink(id, ok)
  \/ \E id \in IdParams, ok, drawn \in BOOLEAN : QrCode(id, ok, drawn)

SpecAll == Init /\ [][NextAll]_vars

\* ------------------------------------------- redirects over inactive links
\* No handler writes isActive; a link is deactivated by an update made
\* directly in the database. The store then holds, besides the active link 1,
\* link 2 (expiring at time 0) and link 3 (alias "abc", no expiry) inactive.
SeedInactiveLinks ==
  << SeedLinks[1],
     [SeedLinks[2] EXCEPT !.isActive = FALSE],
     [id |-> 3, originalUrl |-> UrlPlain, shortCode |-> "abc",
      customAlias |-> Some("abc"), expiresAt |-> None, createdAt |-> 0,
      isActive |-> FALSE, totalClicks |-> 0] >>

InitInactive ==
  /\ links = SeedInactiveLinks
  /\ clicks = <<>>
  /\ reqs = <<>>
  /\ now = 0

NextRedirect ==
  \/ \E code \in Codes, ok \in BOOLEAN : Redirect(code, ok)
  \/ \E i \in ReqIds, ok \in BOOLEAN : ClickCreate(i, ok)
  \/ \E i \in ReqIds, ok \in BOOLEAN : LinkUpdate(i, ok)
  \/ Tick

SpecInactive == InitInactive /\ [][NextRedirect]_vars

\* Redirects alone, over the store Init gives.
SpecRedirect == Init /\ [][NextRedirect]_vars

\* ================================================================ claims
Creates   == {i \in ReqIds : reqs[i].kind = "create"}
Redirects == {i \in ReqIds : reqs[i].kind = "redirect"}
Overviews == {i \in ReqIds : reqs[i].kind = "overview"}
ClickIds  == 1..Len(clicks)

\* Click rows inserted for request i.
ClicksOf(i) == {c \in ClickIds : clicks[c].req = i}

\* C1: a redirect request answered 302 has, before the response, inserted
\* exactly one Click row, which references the link it resolved, and has
\* incremented that link's totalClicks; every link's totalClicks is exactly the
\* number of redirect requests whose increment of that link was applied, so a
\* request changes its own link's counter by exactly 1 and no other counter,
\* and no request has more than one Click row.
C1_RedirectRecordsOneClick ==
  /\ \A i \in Redirects :
       /\ reqs[i].status = 302 =>
            /\ reqs[i].click = "ok" /\ reqs[i].update = "ok"
            /\ Cardinality(ClicksOf(i)) = 1
            /\ links[reqs[i].linkId].shortCode = reqs[i].code
                 \/ links[reqs[i].linkId].customAlias = Some(reqs[i].code)
       /\ Cardinality(ClicksOf(i)) <= 1
       /\ \A c \in ClicksOf(i) : clicks[c].linkId = reqs[i].linkId
  /\ \A l \in LinkIds :
       links[l].totalClicks =
         Cardinality({i \in Redirects : reqs[i].update = "ok" /\ reqs[i].linkId = l})

\* A redirect answered 302 while the store holds a second link, untouched.
C1_Witness ==
  \E i \in Redirects :
    /\ reqs[i].status = 302
    /\ \E l \in LinkIds : l # reqs[i].linkId /\ links[l].totalClicks = 0

\* C2: the denormalized counters and the click rows agree in every state, and
\* so does every Overview response: its totalClicks (the click row count)
\* equals the sum of the links' totalClicks at the moment it was read.
C2_CountersEqualClickRows ==
  /\ SumTotalClicks(links) = Len(clicks)
  /\ \A i \in Overviews :
       reqs[i].status = 200 => reqs[i].totalClicks = reqs[i].sumSeen

\* The links whose shortCode or customAlias equals the code of redirect
\* request i, among the rows the table held when the request looked it up.
\* (shortCode, customAlias, isActive and expiresAt of a row never change.)
CodeHolders(i) ==
  {l \in 1..reqs[i].seen :
     links[l].shortCode = reqs[i].code \/ links[l].customAlias = Some(reqs[i].code)}

\* Link l is past its expiry at time t.
PastExpiry(l, t) == links[l].expiresAt # None /\ links[l].expiresAt[1] < t

\* Redirect request i has been answered and no store call of it failed.
Answered(i) == reqs[i].status # 0 /\ reqs[i].fault = "none"

\* C3: a redirect request whose code no link holds is answered 404; one whose
\* code an active, non-expired link holds is answered 302 with that link's
\* originalUrl as Location, and it is that link the request resolved.
C3_ResolveNotFoundOrThatLink ==
  \A i \in Redirects : Answered(i) =>
    /\ CodeHolders(i) = {} => reqs[i].status = 404
    /\ \A l \in CodeHolders(i) :
         links[l].isActive /\ ~PastExpiry(l, reqs[i].at) =>
           /\ reqs[i].status = 302
           /\ reqs[i].linkId = l
           /\ reqs[i].location = Some(links[l].originalUrl)

\* One request answered 404 for a code nobody holds, another answered 302
\* while the store holds a link with a different originalUrl.
C3_Witness ==
  \E i, j \in Redirects :
    /\ Answered(i) /\ CodeHolders(i) = {} /\ reqs[i].status = 404
    /\ Answered(j) /\ reqs[j].status = 302
    /\ \E l \in LinkIds : links[l].originalUrl # links[reqs[j].linkId].originalUrl

\* C4: a redirect request whose code an active link past its expiry holds is
\* answered 410 "Link has expired" (not 404); and a 410 is only ever answered
\* for an existing, active link whose expiresAt is set and strictly earlier
\* than the time of the request.
C4_ExpiredIsGone ==
  \A i \in Redirects :
    /\ Answered(i) =>
         \A l \in CodeHolders(i) :
           links[l].isActive /\ PastExpiry(l, reqs[i].at) =>
             reqs[i].status = 410 /\ reqs[i].error = "Link has expired"
    /\ reqs[i].status = 410 =>
         /\ reqs[i].linkId \in CodeHolders(i)
         /\ links[reqs[i].linkId].isActive
         /\ PastExpiry(reqs[i].linkId, reqs[i].at)

\* The same link answered 302 at its expiry time and 410 one tick later.
C4_Witness ==
  \E i, j \in Redirects :
    /\ reqs[i].status = 302 /\ reqs[j].status = 410
    /\ reqs[i].linkId = reqs[j].linkId
    /\ links[reqs[i].linkId].expiresAt = Some(reqs[i].at)

\* ------------------------------------------------- claims about Create
\* Create request i has been answered and no store call of it failed for a
\* reason other than a uniqueness violation.
Finished(i) == reqs[i].pc = "done" /\ reqs[i].fault # "store"

\* The body of create request i carries a URL the handler accepts.
UrlAccepted(i) ==
  isValidUrl(reqs[i].body.originalUrl) /\ isValidUrl(formatUrl(reqs[i].body.originalUrl))

\* C5: a Create whose customAlias an existing link holds (when the request
\* arrives, or by the time it inserts) is answered 400 "Custom alias already
\* exists" and persists nothing.
C5_TakenAliasIsConflict ==
  \A i \in Creates :
    Finished(i) /\ UrlAccepted(i) /\ reqs[i].body.customAlias # None
      /\ (reqs[i].held \/ reqs[i].fault = "customAlias") =>
        /\ reqs[i].status = 400
        /\ reqs[i].error = "Custom alias already exists"
        /\ reqs[i].linkId = 0

\* C6: a Create with a valid URL and a non-empty customAlias no link holds as
\* its customAlias when the request arrives is answered 201, and its link is
\* the one the alias resolves to.
C6_FreshAliasSucceeds ==
  \A i \in Creates :
    Finished(i) /\ UrlAccepted(i) /\ Truthy(reqs[i].body.customAlias) /\ ~reqs[i].held =>
      /\ reqs[i].status = 201
      /\ links[reqs[i].linkId].customAlias = reqs[i].body.customAlias
      /\ findFirstMatches(reqs[i].body.customAlias[1]) = {reqs[i].linkId}

\* C7: no two links share a shortCode; a Create without alias answered 201
\* has a shortCode no earlier link has.
C7_ShortCodesUnique ==
  /\ \A l1, l2 \in LinkIds : l1 # l2 => links[l1].shortCode # links[l2].shortCode
  /\ \A i \in Creates :
       reqs[i].status = 201 /\ reqs[i].body.customAlias = None =>
         \A l \in 1..(reqs[i].linkId - 1) :
           links[l].shortCode # links[reqs[i].linkId].shortCode

\* Two Creates without alias for which nanoid returned the same value: one
\* persisted its link, the other was stopped by the store.
C7_Witness ==
  \E i, j \in Creates :
    /\ reqs[i].status = 201 /\ reqs[i].body.customAlias = None
    /\ reqs[j].fault = "shortCode" /\ reqs[j].body.customAlias = None
    /\ reqs[j].data.shortCode = links[reqs[i].linkId].shortCode

\* C8: a Create whose generated short code collides with an existing link's
\* shortCode is answered with the 400 of a conflict, and persists nothing.
C8_CollisionIsConflict ==
  \A i \in Creates :
    reqs[i].fault = "shortCode" /\ ~Truthy(reqs[i].body.customAlias) =>
      reqs[i].status = 400 /\ reqs[i].linkId = 0

\* C9: a Create whose originalUrl starts with neither "http://" nor "https://"
\* (and is a URL once prefixed) is answered 201 and stores "https://" followed by
\* the input; one whose originalUrl starts with either is stored unchanged.
C9_SchemeLessIsPrefixed ==
  \A i \in Creates :
    LET url == reqs[i].body.originalUrl IN
    reqs[i].pc = "done" /\ reqs[i].fault = "none" =>
      IF ~StartsWith(url, HTTP) /\ ~StartsWith(url, HTTPS)
        THEN isValidUrl(HTTPS \o url) =>
               reqs[i].status = 201 /\ links[reqs[i].linkId].originalUrl = HTTPS \o url
        ELSE reqs[i].status = 201 => links[reqs[i].linkId].originalUrl = url

\* C10: a Create with a customAlias of 1 .. MinAliasLength-1 characters is
\* answered 400 and persists nothing, and no link has such a customAlias.
C10_ShortAliasRejected ==
  /\ \A i \in Creates :
       Finished(i) /\ reqs[i].body.customAlias # None
         /\ Len(reqs[i].body.customAlias[1]) \in 1..(MinAliasLength - 1) =>
           reqs[i].status = 400 /\ reqs[i].linkId = 0
  /\ \A l \in LinkIds :
       links[l].customAlias # None =>
         Len(links[l].customAlias[1]) \notin 1..(MinAliasLength - 1)

\* ------------------------------------------- claims C11 .. C20
\* Redirect requests that resolved link l and went on to record a click.
RecordersOf(l) == {i \in Redirects : reqs[i].linkId = l /\ reqs[i].click # "none"}

\* Click rows referencing link l.
ClickRowsOf(l) == {c \in ClickIds : clicks[c].linkId = l}

\* C11: when every redirect request that recorded a click for a link has been
\* answered 302, in whatever order their writes were applied, the link's
\* totalClicks and the number of Click rows referencing it both equal the
\* number of those requests (the counter starts at 0).
C11_NoLostUpdate ==
  \A l \in LinkIds :
    (\A i \in RecordersOf(l) : reqs[i].status = 302) =>
      /\ links[l].totalClicks = Cardinality(RecordersOf(l))
      /\ Cardinality(ClickRowsOf(l)) = Cardinality(RecordersOf(l))

\* Two redirects of one link, both answered 302, that ran concurrently: both
\* read totalClicks 0, and the later request's click row was inserted first.
C11_Witness ==
  \E i, j \in Redirects :
    /\ i < j /\ reqs[i].linkId = reqs[j].linkId
    /\ reqs[i].status = 302 /\ reqs[j].status = 302
    /\ reqs[i].read = 0 /\ reqs[j].read = 0
    /\ clicks[1].req = j /\ clicks[2].req = i

Lists == {i \in ReqIds : reqs[i].kind = "list"}

\* A query parameter that is absent, non-numeric, zero or negative.
NotPositive(param) ==
  \/ param = None
  \/ Head(param) \notin Digits
  \/ \A k \in 1..Len(param) : param[k] = "0"

\* seq lists distinct links among the first n, newest first.
IsCreatedDesc(seq, n) ==
  /\ \A a \in 1..Len(seq) : seq[a] \in 1..n
  /\ \A a, b \in 1..Len(seq) :
       a < b => seq[a] # seq[b] /\ links[seq[a]].createdAt >= links[seq[b]].createdAt

\* The links a list response carries.
RowSet(i) == {reqs[i].rows[k] : k \in 1..Len(reqs[i].rows)}

\* C12: a list request whose page parameter is absent, non-numeric, zero or
\* negative uses page 1, and one whose limit parameter is so uses limit 10;
\* with both so, it is answered 200 with the first (at most 10) links.
C12_ListDefaults ==
  \A i \in Lists :
    /\ NotPositive(reqs[i].pageParam) => reqs[i].page = DefaultPage
    /\ NotPositive(reqs[i].limitParam) => reqs[i].limit = DefaultLimit
    /\ NotPositive(reqs[i].pageParam) /\ NotPositive(reqs[i].limitParam)
         /\ reqs[i].status # 0 /\ reqs[i].fault # "store" =>
           /\ reqs[i].status = 200
           /\ Len(reqs[i].rows) = Min(DefaultLimit, reqs[i].seen)
           /\ IsCreatedDesc(reqs[i].rows, reqs[i].seen)

\* List requests answered 200 for the same positive limit over the same links
\* as request i (no link was created between them).
SamePaging(i) ==
  {j \in Lists : /\ reqs[j].status = 200 /\ reqs[j].page >= 1
                 /\ reqs[j].limit = reqs[i].limit /\ reqs[j].seen = reqs[i].seen}

\* C16: a list request with positive page and limit answers the links at
\* positions (page-1)*limit+1 .. page*limit of the links newest first, with
\* total a count of the links and pages = ceil(total/limit); and over the pages
\* of one paging no link appears twice, and once pages 1..pages have all been
\* listed every link has appeared.
C16_ListPagesPartition ==
  \A i \in Lists :
    reqs[i].status = 200 /\ reqs[i].page >= 1 /\ reqs[i].limit >= 1 =>
      /\ IsCreatedDesc(reqs[i].rows, reqs[i].seen)
      /\ Len(reqs[i].rows) =
           Max(0, Min(reqs[i].page * reqs[i].limit, reqs[i].seen)
                    - (reqs[i].page - 1) * reqs[i].limit)
      /\ \A k \in 1..Len(reqs[i].rows) :
           Cardinality({l \in 1..reqs[i].seen :
                          links[l].createdAt > links[reqs[i].rows[k]].createdAt})
             < reqs[i].page * reqs[i].limit
      /\ reqs[i].total <= Len(links)
      /\ Pages(i) * reqs[i].limit >= reqs[i].total
      /\ (Pages(i) - 1) * reqs[i].limit < reqs[i].total \/ reqs[i].total = 0
      /\ \A j \in SamePaging(i) :
           reqs[j].page # reqs[i].page => RowSet(i) \cap RowSet(j) = {}
      /\ (\A p \in 1..CeilDiv(reqs[i].seen, reqs[i].limit) :
            \E j \in SamePaging(i) : reqs[j].page = p)
           => UNION {RowSet(j) : j \in SamePaging(i)} = 1..reqs[i].seen

\* C13: the step in which a Create is answered 201 appends one link with
\* isActive = TRUE and totalClicks = 0 that no click row refers to, whatever
\* the body was, and the response is that persisted record.
C13_CreatedLinkStartsFresh ==
  [][\A i \in Creates :
       reqs[i].status = 0 /\ reqs'[i].status = 201 =>
         LET l == reqs'[i].linkId IN
           /\ l = Len(links) + 1 /\ Len(links') = l
           /\ links'[l].isActive
           /\ links'[l].totalClicks = 0
           /\ \A c \in 1..Len(clicks') : clicks'[c].linkId # l
           /\ links'[l].originalUrl = formatUrl(reqs[i].body.originalUrl)
           /\ links'[l].expiresAt = reqs[i].body.expiresAt
           /\ reqs'[i].response = Some(links'[l])]_vars

C13_Witness ==
  \E i \in Creates :
    /\ reqs[i].status = 201
    /\ reqs[i].body.expiresAt # None
    /\ reqs[i].response = Some(links[reqs[i].linkId])
    /\ clicks # <<>>

\* The store refused the insert of create request i because the alias the
\* request asked for is taken.
AliasConflict(i) ==
  /\ reqs[i].kind = "create" /\ Truthy(reqs[i].body.customAlias)
  /\ reqs[i].fault \in {"shortCode", "customAlias"}

\* C14: every answered request carries one status of the taxonomy: a Create
\* with an invalid body or URL, or whose alias is taken, is answered 400; a
\* redirect that matched no link 404; one that matched an expired link 410;
\* a store failure is answered 500 "Internal server error", and 500 is only
\* answered with that body; a failed store call is not issued again.
C14_FailuresMappedToTaxonomy ==
  \A i \in ReqIds :
    reqs[i].status # 0 =>
      /\ reqs[i].status \in {200, 201, 302, 400, 404, 410, 500}
      /\ reqs[i].fault = "store" =>
           reqs[i].status = 500 /\ reqs[i].error = "Internal server error"
      /\ reqs[i].status = 500 => reqs[i].error = "Internal server error"
      /\ reqs[i].kind = "create" /\ reqs[i].fault # "store" =>
           /\ ~createLinkSchema(reqs[i].body) => reqs[i].status = 400
           /\ ~isValidUrl(formatUrl(reqs[i].body.originalUrl)) => reqs[i].status = 400
           /\ AliasConflict(i) => reqs[i].status = 400
           /\ reqs[i].pc = "done"
      /\ reqs[i].kind = "redirect" /\ reqs[i].fault # "store" =>
           /\ reqs[i].linkId = 0 => reqs[i].status = 404
           /\ reqs[i].linkId # 0 /\ PastExpiry(reqs[i].linkId, reqs[i].at) =>
                reqs[i].status = 410
      /\ reqs[i].kind = "redirect" =>
           /\ reqs[i].click = "failed" => Cardinality(ClicksOf(i)) = 0
           /\ Cardinality(ClicksOf(i)) <= 1

\* C15: a redirect request whose code only inactive links hold is answered
\* 404 "Link not found", expired or not, resolves no link and writes nothing;
\* so an inactive link gets no click row and keeps its totalClicks.
C15_InactiveIsNotFound ==
  /\ \A i \in Redirects :
       Answered(i) /\ CodeHolders(i) # {}
         /\ (\A l \in CodeHolders(i) : ~links[l].isActive) =>
           /\ reqs[i].status = 404 /\ reqs[i].error = "Link not found"
           /\ reqs[i].linkId = 0
           /\ reqs[i].click = "none" /\ reqs[i].update = "none"
           /\ ClicksOf(i) = {}
  /\ \A l \in LinkIds :
       ~links[l].isActive =>
         links[l].totalClicks = 0 /\ ClickRowsOf(l) = {}

\* An inactive link past its expiry answered 404 after another request was
\* answered 302 and recorded its click.
C15_Witness ==
  \E i, j \in Redirects :
    /\ Answered(i) /\ reqs[i].status = 404
    /\ \E l \in CodeHolders(i) : ~links[l].isActive /\ PastExpiry(l, reqs[i].at)
    /\ reqs[j].status = 302 /\ ClicksOf(j) # {}

\* C17: an Overview answered 200 reports totalLinks = the number of links,
\* recentClicks = the number of click rows created within the last 7 days, and
\* topLinks = the (at most) 5 links of highest totalClicks in descending
\* order; and two Overviews that read the same links report the same topLinks.
C17_OverviewTopLinks ==
  \A i \in Overviews :
    reqs[i].status = 200 =>
      LET seen == reqs[i].linksSeen
          top  == reqs[i].topLinks
      IN
      /\ reqs[i].totalLinks = Len(seen)
      /\ reqs[i].recentClicks =
           Cardinality({c \in 1..reqs[i].totalClicks :
                          clicks[c].createdAt >= reqs[i].at - RecentWindow})
      /\ Len(top) = Min(TopN, Len(seen))
      /\ \A a, b \in 1..Len(top) :
           a < b => top[a] # top[b]
                      /\ seen[top[a]].totalClicks >= seen[top[b]].totalClicks
      /\ \A l \in 1..Len(seen) :
           (\A a \in 1..Len(top) : top[a] # l) =>
             \A a \in 1..Len(top) : seen[top[a]].totalClicks >= seen[l].totalClicks
      /\ \A j \in Overviews :
           reqs[j].status = 200 /\ reqs[j].linksSeen = seen => reqs[j].topLinks = top

\* Redirect requests whose counter update (click insert) the store applied.
UpdatedBy(l) ==
  {i \in Redirects : reqs[i].linkId = l /\ reqs[i].update = "ok"}
Inserted == {i \in Redirects : reqs[i].click = "ok"}

\* C18: a redirect request answered 404 or 410 issues neither write: no
\* click row is inserted for it, and every link's totalClicks and the click
\* table are accounted for by the writes of the other requests.
C18_NotFoundAndGoneWriteNothing ==
  /\ \A i \in Redirects :
       reqs[i].status \in {404, 410} =>
         /\ reqs[i].click = "none" /\ reqs[i].update = "none"
         /\ ClicksOf(i) = {}
  /\ \A l \in LinkIds : links[l].totalClicks = Cardinality(UpdatedBy(l))
  /\ Len(clicks) = Cardinality(Inserted)
  /\ \A c \in ClickIds : clicks[c].req \in Inserted

\* One request answered 404 and one answered 410.
C18_Witness ==
  \E i, j \in Redirects :
    /\ reqs[i].status = 404 /\ reqs[i].fault = "none"
    /\ reqs[j].status = 410 /\ reqs[j].linkId # 0

\* C19: no step changes an existing link's isActive, expiresAt, originalUrl,
\* shortCode or customAlias (or any field but totalClicks), removes a link or
\* removes or changes a click row; and a step changes a link's totalClicks
\* only by adding 1, as the counter update of a redirect request for that link.
C19_LinksOnlyGainClicks ==
  [][/\ Len(links') >= Len(links)
     /\ Len(clicks') >= Len(clicks)
     /\ \A c \in 1..Len(clicks) : clicks'[c] = clicks[c]
     /\ \A l \in 1..Len(links) :
          /\ links'[l] = [links[l] EXCEPT !.totalClicks = links'[l].totalClicks]
          /\ links'[l].totalClicks # links[l].totalClicks =>
               /\ links'[l].totalClicks = links[l].totalClicks + 1
               /\ \E i \in Redirects :
                    /\ reqs[i].linkId = l
                    /\ reqs[i].update = "pending" /\ reqs'[i].update = "ok"]_vars

\* After a redirect to link 1 and a read of the store, with link 2 past its
\* expiry: link 1 differs from what it was in its totalClicks alone and
\* link 2 is as it was.
C19_Witness ==
  /\ Len(links) >= 2
  /\ links[1] = [SeedLinks[1] EXCEPT !.totalClicks = 1]
  /\ links[2] = SeedLinks[2] /\ PastExpiry(2, now)
  /\ \E i \in ReqIds : reqs[i].kind \in {"list", "get", "qr"} /\ reqs[i].status = 200

\* The codes link l can be resolved by.
CodesOf(l) ==
  {links[l].shortCode}
    \cup (IF links[l].customAlias = None THEN {} ELSE {links[l].customAlias[1]})

\* C20: a link created with a non-empty customAlias has that alias as its
\* shortCode; no two links share a code, as shortCode or as customAlias; and
\* no code resolves to more than one link.
C20_OneNamespace ==
  /\ \A i \in Creates :
       reqs[i].status = 201 /\ Truthy(reqs[i].body.customAlias) =>
         /\ links[reqs[i].linkId].shortCode = reqs[i].body.customAlias[1]
         /\ links[reqs[i].linkId].customAlias = reqs[i].body.customAlias
  /\ \A l \in LinkIds :
       Truthy(links[l].customAlias) => links[l].shortCode = links[l].customAlias[1]
  /\ \A l1, l2 \in LinkIds : l1 # l2 => CodesOf(l1) \cap CodesOf(l2) = {}
  /\ \A l \in LinkIds : \A code \in CodesOf(l) : findFirstMatches(code) = {l}

\* A link created with alias "abc", and a Create the store stopped because
\* its alias is the generated short code of a link without alias.
C20_Witness ==
  \E i, j \in Creates :
    /\ reqs[i].status = 201 /\ Truthy(reqs[i].body.customAlias)
    /\ reqs[j].fault = "shortCode" /\ Truthy(reqs[j].body.customAlias)
    /\ \E l \in LinkIds :
         links[l].customAlias = None /\ links[l].shortCode = reqs[j].body.customAlias[1]

\* ------------------------------------------------- claims C21 .. C24
\* Create requests that carry the alias a and found it unused on arrival.
Claimants(a) ==
  {i \in Creates : reqs[i].body.customAlias = Some(a) /\ ~reqs[i].held}

\* C21: of the Create requests that carry the same customAlias, unused when
\* they arrived, at most one persists a link and is answered 201, however
\* their findUnique and create calls interleave; and no two links share a
\* non-null customAlias.
C21_OneWinnerPerAlias ==
  /\ \A a \in FormAliases :
       /\ Cardinality({i \in Claimants(a) : reqs[i].status = 201}) <= 1
       /\ Cardinality({i \in Claimants(a) : reqs[i].linkId # 0}) <= 1
       /\ Cardinality({l \in LinkIds : links[l].customAlias = Some(a)}) <= 1
  /\ \A l1, l2 \in LinkIds :
       l1 # l2 /\ links[l1].customAlias # None =>
         links[l1].customAlias # links[l2].customAlias

\* Two Creates with alias "abc" that both passed the existence check before
\* either inserted: one was answered 201, the store stopped the other.
C21_Witness ==
  \E i, j \in Claimants("abc") :
    /\ reqs[i].status = 201
    /\ reqs[j].pc = "done" /\ reqs[j].fault \in {"shortCode", "customAlias"}
    /\ links[reqs[i].linkId].customAlias = Some("abc")

\* Redirect requests answered 410 for link l.
GoneBy(l) == {i \in Redirects : reqs[i].linkId = l /\ reqs[i].status = 410}

\* A redirect request that arrived after one answered 410 for the same code
\* and whose store calls did not fail is answered 410 as well.
LaterAlsoGone ==
  \A i, j \in Redirects :
    i < j /\ reqs[i].code = reqs[j].code /\ reqs[i].status = 410 /\ Answered(j) =>
      reqs[j].status = 410

\* Redirect requests that resolved link l when it had not expired and arrived
\* before every request answered 410 for it.
EarlierResolvers(l) ==
  {i \in Redirects : /\ reqs[i].linkId = l /\ ~PastExpiry(l, reqs[i].at)
                     /\ \A j \in GoneBy(l) : i < j}

\* C22: once a redirect request for a code has been answered 410, every later
\* redirect request for that code is answered 410, and no step changes the
\* link's totalClicks or its click rows any more.
C22_ExpiryIsPermanent ==
  [][/\ LaterAlsoGone'
     /\ \A l \in LinkIds :
          GoneBy(l) # {} =>
            /\ links'[l].totalClicks = links[l].totalClicks
            /\ ClickRowsOf(l)' = ClickRowsOf(l)]_vars

\* C22 as amended: once a redirect request for a code has been answered 410,
\* every later redirect request for that code is answered 410, and a step
\* changes the link's totalClicks or click rows only by applying a write that
\* a request which resolved the link before its expiry still had in flight.
C22_ExpiryIsPermanentButInFlight ==
  [][/\ LaterAlsoGone'
     /\ \A l \in LinkIds :
          GoneBy(l) # {} =>
            /\ links'[l].totalClicks # links[l].totalClicks =>
                 \E i \in EarlierResolvers(l) :
                   reqs[i].update = "pending" /\ reqs'[i].update = "ok"
            /\ ClickRowsOf(l)' # ClickRowsOf(l) =>
                 \E i \in EarlierResolvers(l) :
                   reqs[i].click = "pending" /\ reqs'[i].click = "ok"]_vars

\* A request resolved a link before its expiry; a later request for the link
\* was answered 410; the click row of the first was inserted at or after the
\* time of the 410, and the first was then answered 302.
C22_Witness ==
  \E i, j \in Redirects :
    /\ i < j /\ reqs[i].linkId = reqs[j].linkId
    /\ reqs[j].status = 410
    /\ reqs[i].status = 302
    /\ \E c \in ClicksOf(i) : clicks[c].createdAt >= reqs[j].at

\* C23: every click row's linkId is the id of a link of the store, whatever
\* became of the request that inserted it.
C23_NoOrphanClicks ==
  \A c \in ClickIds :
    /\ clicks[c].linkId \in LinkIds
    /\ links[clicks[c].linkId].id = clicks[c].linkId
    /\ clicks[c].linkId = reqs[clicks[c].req].linkId

\* The store holds the click row of a request answered 500 because its
\* counter update failed and the click row of a request answered 302.
C23_Witness ==
  \E i, j \in Redirects :
    /\ reqs[i].status = 500 /\ reqs[i].update = "failed" /\ ClicksOf(i) # {}
    /\ reqs[j].status = 302 /\ ClicksOf(j) # {}

\* C24: every link's totalClicks is a natural number, and no step lowers a
\* link's totalClicks or the number of click rows that reference the link.
C24_CountersNeverDecrease ==
  [][\A l \in LinkIds :
       /\ links[l].totalClicks \in Nat /\ links'[l].totalClicks \in Nat
       /\ links'[l].totalClicks >= links[l].totalClicks
       /\ Cardinality(ClickRowsOf(l)') >= Cardinality(ClickRowsOf(l))]_vars

\* A link that two redirects recorded a click for, the counter update of one
\* of which failed: two click rows, totalClicks 1.
C24_Witness ==
  \E l \in LinkIds :
    /\ links[l].totalClicks = 1
    /\ Cardinality(ClickRowsOf(l)) = 2
    /\ \E i \in RecordersOf(l) : reqs[i].update = "failed"

====
